---- MODULE Spec2Model ----
(***************************************************************************)
(* AnimatedWaveComponent (animated-wave.component.ts): the scene lifecycle *)
(* (setupScene / cleanupScene / ngOnChanges / the animation loop), the     *)
(* window listeners and animation-frame callbacks it registers with the    *)
(* host, and the mesh engine ("groundPlain") it creates.                   *)
(*                                                                         *)
(* Numbers are exact rationals <<numerator, denominator>>; the noise       *)
(* function of simplex-noise is uninterpreted, so a height is kept as the  *)
(* arguments the code passes to it.  The vertex buffer is kept at the      *)
(* vertices SampleIdx names, together with the full vertex count.          *)
(***************************************************************************)
EXTENDS Integers, Sequences, FiniteSets, TLC

VARIABLES
    st,      \* the component and what it has registered with the host (see Fresh)
    phase    \* Angular lifecycle position: constructed, mounted, destroyed

vars == <<st, phase>>

(***************************************************************************)
(* Bounds of the model.                                                    *)
(***************************************************************************)
\* requestAnimationFrame is called at most this many times in a behaviour
MaxFrames == 3

(***************************************************************************)
(* Exact rational arithmetic.                                              *)
(***************************************************************************)
Abs(n) == IF n < 0 THEN -n ELSE n

RECURSIVE GCD(_, _)
GCD(a, b) == IF b = 0 THEN a ELSE GCD(b, a % b)

Norm(n, d) ==
    LET g == GCD(Abs(n), Abs(d))
        s == IF d < 0 THEN -1 ELSE 1
    IN  <<(s * n) \div g, (s * d) \div g>>

Q(n) == <<n, 1>>
Frac(n, d) == Norm(n, d)
LCM(a, b) == (a \div GCD(a, b)) * b

RAdd(a, b) ==
    IF a[2] = 1 /\ b[2] = 1 THEN <<a[1] + b[1], 1>>
    ELSE LET l == LCM(a[2], b[2])
         IN  Norm(a[1] * (l \div a[2]) + b[1] * (l \div b[2]), l)
RNeg(a) == <<-a[1], a[2]>>
RSub(a, b) == RAdd(a, RNeg(b))
RMul(a, b) ==
    IF a[2] = 1 /\ b[2] = 1 THEN <<a[1] * b[1], 1>>
    ELSE LET g1 == GCD(Abs(a[1]), b[2])
             g2 == GCD(Abs(b[1]), a[2])
         IN  Norm((a[1] \div g1) * (b[1] \div g2), (a[2] \div g2) * (b[2] \div g1))
\* b # 0: the inputs used as divisors are never drawn as 0
RDiv(a, b) == RMul(a, Norm(b[2], b[1]))
RLess(a, b) ==
    IF a[2] = b[2] THEN a[1] < b[1]
    ELSE LET l == LCM(a[2], b[2])
         IN  a[1] * (l \div a[2]) < b[1] * (l \div b[2])
RIsZero(a) == a[1] = 0
RPos(a) == a[1] > 0
RSq(a) == RMul(a, a)
Zero == Q(0)
Half == Frac(1, 2)

\* JavaScript's null / undefined for an object reference
NULL == [null |-> TRUE]

(***************************************************************************)
(* The inputs: their initial values (the field initialisers), and for each *)
(* one the other values a binding may give it.                             *)
(***************************************************************************)
Default ==
    [ className |-> "",
      speed |-> Frac(15, 1000),
      amplitude |-> Q(30),
      smoothness |-> Q(300),
      wireframe |-> TRUE,
      waveColor |-> "",
      opacity |-> Q(1),
      mouseInteraction |-> TRUE,
      quality |-> "medium",
      fov |-> Q(60),
      waveOffsetY |-> Q(-300),
      waveRotation |-> Frac(298, 10),
      cameraDistance |-> Q(-1000),
      autoDetectBackground |-> TRUE,
      backgroundColor |-> "",
      ease |-> Q(12),
      mouseDistortionStrength |-> Frac(5, 10),
      mouseDistortionSmoothness |-> Q(100),
      mouseDistortionDecay |-> Frac(5, 10000),
      mouseShrinkScaleStrength |-> Frac(7, 10),
      mouseShrinkScaleRadius |-> Q(200) ]

Keys == DOMAIN Default

Others ==
    [ className |-> {"hero"},
      speed |-> {Frac(1, 100)},
      amplitude |-> {Q(20)},
      smoothness |-> {Q(200)},
      wireframe |-> {FALSE},
      waveColor |-> {"#ff0000"},
      opacity |-> {Frac(1, 2)},
      mouseInteraction |-> {FALSE},
      quality |-> {"low", "high"},
      fov |-> {Q(75)},
      waveOffsetY |-> {Q(-200)},
      waveRotation |-> {Q(45)},
      cameraDistance |-> {Q(-800)},
      autoDetectBackground |-> {FALSE},
      backgroundColor |-> {"#000000"},
      ease |-> {Q(1)},
      mouseDistortionStrength |-> {Q(0)},
      mouseDistortionSmoothness |-> {Q(50)},
      mouseDistortionDecay |-> {Frac(1, 1000)},
      mouseShrinkScaleStrength |-> {Q(0)},
      mouseShrinkScaleRadius |-> {Q(400)} ]

\* every configuration that differs from c in one input
Variants(c) ==
    UNION { { [c EXCEPT ![k] = v] : v \in (Others[k] \cup {Default[k]}) \ {c[k]} } : k \in Keys }

\* the inputs the host binds in the behaviours explored, and the configurations
\* its bindings produce: the defaults, and the defaults with one bound input set
\* to another value
BoundKeys == {"mouseInteraction", "quality", "opacity", "ease"}
Configs == {Default} \cup { c \in Variants(Default) : \E k \in BoundKeys : c[k] # Default[k] }

Changed(old, new) == {k \in Keys : old[k] # new[k]}

(***************************************************************************)
(* getDeviceInfo: the viewport as the window and the document report it.   *)
(***************************************************************************)
Max(a, b) == IF a >= b THEN a ELSE b

\* a || b on numbers
OrElse(a, b) == IF a # 0 THEN a ELSE b

Viewports ==
    { [innerWidth |-> 800, innerHeight |-> 600, docWidth |-> 800, docHeight |-> 600,
       bodyWidth |-> 800, bodyHeight |-> 600],
      [innerWidth |-> 0, innerHeight |-> 0, docWidth |-> 1200, docHeight |-> 400,
       bodyWidth |-> 1200, bodyHeight |-> 2000] }

screenWidth(v) == Max(0, OrElse(v.innerWidth, OrElse(v.docWidth, OrElse(v.bodyWidth, 0))))
screenHeight(v) == Max(0, OrElse(v.innerHeight, OrElse(v.docHeight, OrElse(v.bodyHeight, 0))))
screenRatio(v) == Frac(screenWidth(v), screenHeight(v))
screenCenterX(v) == Frac(screenWidth(v), 2)
screenCenterY(v) == Frac(screenHeight(v), 2)
mouseCenterX(v, e) == RSub(Q(e.clientX), screenCenterX(v))
mouseCenterY(v, e) == RSub(Q(e.clientY), screenCenterY(v))

\* the pointer events the host delivers
MouseEvents == { [clientX |-> 500, clientY |-> 200] }

(***************************************************************************)
(* Colour resolution.  A colour is [r, g, b] with channels 0..255.         *)
(***************************************************************************)
White == [r |-> 255, g |-> 255, b |-> 255]
Black == [r |-> 0, g |-> 0, b |-> 0]

\* what THREE.Color makes of the strings that occur
ColorTable ==
    [ s \in {"#ff0000", "#000000", "rgb(20, 20, 20)", "rgb(250, 250, 250)",
             "rgb(128, 128, 128)", "rgb(0, 204, 68)"} |->
        CASE s = "#ff0000" -> [r |-> 255, g |-> 0, b |-> 0]
          [] s = "#000000" -> Black
          [] s = "rgb(20, 20, 20)" -> [r |-> 20, g |-> 20, b |-> 20]
          [] s = "rgb(250, 250, 250)" -> [r |-> 250, g |-> 250, b |-> 250]
          [] s = "rgb(128, 128, 128)" -> [r |-> 128, g |-> 128, b |-> 128]
          [] s = "rgb(0, 204, 68)" -> [r |-> 0, g |-> 204, b |-> 68] ]

\* a string THREE.Color cannot read leaves the colour white, as the catch branch does
parseColor(color) ==
    IF color \in DOMAIN ColorTable THEN ColorTable[color] ELSE White

\* isColorDark with luminance 0.5 counted as dark
isColorDark_Inclusive(color) == 299 * color.r + 587 * color.g + 114 * color.b <= 127500

\* 0.299 r + 0.587 g + 0.114 b < 0.5, with channels in 0..1, times 255000
isColorDark(color) == 299 * color.r + 587 * color.g + 114 * color.b < 127500

\* the ancestor chains of the container: computed background colours, container first
DomChains ==
    { <<"rgba(0, 0, 0, 0)", "rgb(20, 20, 20)", "rgb(250, 250, 250)">> }

RECURSIVE getElementBackground(_, _)
getElementBackground(chain, i) ==
    IF i > Len(chain) THEN ""
    ELSE IF chain[i] # "" /\ chain[i] # "rgba(0, 0, 0, 0)" /\ chain[i] # "transparent"
         THEN chain[i]
         ELSE getElementBackground(chain, i + 1)

determineWaveColor(c, chain) ==
    IF c.waveColor # "" THEN parseColor(c.waveColor)
    ELSE IF c.autoDetectBackground /\ getElementBackground(chain, 1) # ""
         THEN IF isColorDark(parseColor(getElementBackground(chain, 1)))
              THEN White ELSE Black
         ELSE Black

\* the material fields that follow from the inputs
MaterialOf(c, chain) ==
    [ color |-> determineWaveColor(c, chain),
      wireframe |-> c.wireframe,
      opacity |-> c.opacity,
      transparent |-> RLess(c.opacity, Q(1)),
      depthWrite |-> ~RLess(c.opacity, Q(1)),
      blending |-> IF RLess(c.opacity, Q(1)) THEN "NormalBlending" ELSE "NoBlending",
      \* set by mat.needsUpdate = true; a new material has not been marked
      needsUpdate |-> FALSE ]

(***************************************************************************)
(* The mesh engine: createGroundPlain and the methods of the object.       *)
(***************************************************************************)
PlaneWidth == 4000
PlaneHeight == 2000

\* getQualitySettings with high answered as the default
getQualitySettings_HighAsDefault(q) ==
    CASE q = "low" -> [width |-> 64, height |-> 32]
      [] OTHER -> [width |-> 128, height |-> 64]

getQualitySettings(q) ==
    CASE q = "low" -> [width |-> 64, height |-> 32]
      [] q = "high" -> [width |-> 256, height |-> 128]
      [] OTHER -> [width |-> 128, height |-> 64]

\* THREE.PlaneGeometry: (sx+1)*(sy+1) vertices, row by row, flat in z
VertexCount(sx, sy) == (sx + 1) * (sy + 1)
VertexAt(i, sx, sy) ==
    LET ix == i % (sx + 1)
        iy == i \div (sx + 1)
    IN  << RSub(RMul(Q(ix), Frac(PlaneWidth, sx)), Frac(PlaneWidth, 2)),
           RNeg(RSub(RMul(Q(iy), Frac(PlaneHeight, sy)), Frac(PlaneHeight, 2))),
           Q(0) >>

\* the vertices the model keeps: the first corner, the middle of the first row and
\* of the first column, and the centre of the grid
SampleIdx(sx, sy) ==
    { iy * (sx + 1) + ix : ix \in {0, sx \div 2}, iy \in {0, sy \div 2} }

\* a Float32Array: its length, and its (x, y, z) triples at the sampled vertices
EmptyArray == [len |-> 0, at |-> <<>>]
PositionArray(sx, sy) ==
    [ len |-> 3 * VertexCount(sx, sy),
      at |-> [i \in SampleIdx(sx, sy) |-> VertexAt(i, sx, sy)] ]

\* the position array of new THREE.PlaneGeometry(4000, 2000, width, height), for
\* the segments of each quality
Qualities == {"low", "medium", "high"}
PlaneGeometry ==
    [ q \in Qualities |->
        PositionArray(getQualitySettings(q).width, getQualitySettings(q).height) ]

\* 1 - sqrt(d2)/r while sqrt(d2) < r and 0 from there on (r > 0): exactly 0,
\* exactly 1, or kept by its arguments
Falloff(d2, r) ==
    IF ~RLess(d2, RSq(r)) THEN [kind |-> "zero", d2 |-> Zero, r |-> Zero]
    ELSE IF RIsZero(d2) THEN [kind |-> "one", d2 |-> Zero, r |-> Zero]
    ELSE [kind |-> "part", d2 |-> d2, r |-> r]

\* the shrink falloff with the square taken at the wrong place: 1 - (d/r)^2
shrinkFalloff_SquareInside(d, r) ==
    IF RLess(d, r) THEN RSub(Q(1), RSq(RDiv(d, r))) ELSE Zero

\* let falloff = 0; if (d < radius) falloff = (1 - d / radius) ^ 2, for a
\* distance d that is a rational
shrinkFalloff(d, r) ==
    IF RLess(d, r) THEN RSq(RSub(Q(1), RDiv(d, r))) ELSE Zero

\* an argument num / den + plus of the noise function, kept by its parts
Arg(num, den, plus) == [num |-> num, den |-> den, plus |-> plus]

NoFalloff == [kind |-> "zero", d2 |-> Zero, r |-> Zero]

NoRipple == [on |-> FALSE, x |-> Arg(Zero, Q(1), Zero), y |-> Arg(Zero, Q(1), Zero), strength |-> Zero,
             scale |-> Zero,
             zFalloff |-> NoFalloff]

\* o - pull * falloff^2: a planar coordinate under the shrink effect
Shrunk(o, pull, falloff) ==
    IF falloff.kind = "zero" \/ RIsZero(pull)
    THEN [exact |-> TRUE, v |-> o, pull |-> Q(0), falloff |-> NoFalloff]
    ELSE IF falloff.kind = "one"
    THEN [exact |-> TRUE, v |-> RSub(o, pull), pull |-> Q(0), falloff |-> NoFalloff]
    ELSE [exact |-> FALSE, v |-> o, pull |-> pull, falloff |-> falloff]

Exactly(o) == Shrunk(o, Q(0), NoFalloff)

\* simplex(x, y) * scale, plus the ripple term
Height(simplex, x, y, scale, ripple) ==
    [simplex |-> simplex, x |-> x, y |-> y, scale |-> scale, ripple |-> ripple]

\* z = 0, as PlaneGeometry leaves it
FlatHeight == Height(0, Arg(Zero, Q(1), Zero), Arg(Zero, Q(1), Zero), Zero, NoRipple)

\* MovedVertex with a ripple that does not ask for mouseInteraction
MovedVertex_RippleUnguarded(gp, ox, oy, mx, my, mi, t) ==
    LET distX == RSub(ox, RMul(mx, Half))
        distY == RSub(oy, RMul(my, Half))
        ripple ==
            IF RPos(gp.mouseDistortionStrength)
            THEN [ on |-> TRUE,
                   x |-> Arg(distX, gp.mouseDistortionSmoothness, t),
                   y |-> Arg(distY, gp.mouseDistortionSmoothness, RNeg(t)),
                   strength |-> gp.mouseDistortionStrength,
                   scale |-> gp.scale,
                   zFalloff |-> Falloff(RAdd(RSq(distX), RSq(distY)),
                                        RMul(gp.mouseShrinkScaleRadius, Q(2))) ]
            ELSE NoRipple
    IN  [ x |-> Exactly(ox),
          y |-> Exactly(oy),
          z |-> Height(gp.simplex.id, Arg(ox, gp.factor, Zero),
                       Arg(oy, gp.factor, gp.cycle), gp.scale, ripple) ]

\* one pass of the loop of moveNoise, for the vertex with original (ox, oy)
MovedVertex(gp, ox, oy, mx, my, mi, t) ==
    LET ripple ==
            IF mi /\ RPos(gp.mouseDistortionStrength)
            THEN LET distX == RSub(ox, RMul(mx, Half))
                     distY == RSub(oy, RMul(my, Half))
                 IN  [ on |-> TRUE,
                       x |-> Arg(distX, gp.mouseDistortionSmoothness, t),
                       y |-> Arg(distY, gp.mouseDistortionSmoothness, RNeg(t)),
                       strength |-> gp.mouseDistortionStrength,
                       scale |-> gp.scale,
                       zFalloff |-> Falloff(RAdd(RSq(distX), RSq(distY)),
                                            RMul(gp.mouseShrinkScaleRadius, Q(2))) ]
            ELSE NoRipple
        shrink == mi /\ RPos(gp.mouseShrinkScaleStrength)
        dx == RSub(ox, mx)
        dy == RSub(oy, my)
        falloff == Falloff(RAdd(RSq(dx), RSq(dy)), gp.mouseShrinkScaleRadius)
    IN  [ x |-> IF shrink
                THEN Shrunk(ox, RMul(dx, gp.mouseShrinkScaleStrength), falloff)
                ELSE Exactly(ox),
          y |-> IF shrink
                THEN Shrunk(oy, RMul(dy, gp.mouseShrinkScaleStrength), falloff)
                ELSE Exactly(oy),
          z |-> Height(gp.simplex.id, Arg(ox, gp.factor, Zero),
                       Arg(oy, gp.factor, gp.cycle), gp.scale, ripple) ]

\* moveNoise with the cycle advanced before the vertices are written
moveNoise_CycleFirst(gp, m, mi) ==
    IF gp.geometry = NULL \/ gp.simplex = NULL THEN gp
    ELSE LET mx == IF mi THEN m.x ELSE Q(0)
             my == IF mi THEN m.y ELSE Q(0)
             dt == RAdd(gp.distortionTime, gp.mouseDistortionDecay)
             t == RMul(dt, Q(1000))
             orig == gp.originalPositions.at
             ahead == [gp EXCEPT !.cycle = RAdd(gp.cycle, gp.speed)]
         IN  [ahead EXCEPT
                !.distortionTime = dt,
                !.geometry.positions =
                    [i \in DOMAIN gp.geometry.positions |->
                        MovedVertex(ahead, orig[i][1], orig[i][2], mx, my, mi, t)]]

\* moveNoise that writes the moved x, y into the snapshot as well
moveNoise_WritesSnapshot(gp, m, mi) ==
    IF gp.geometry = NULL \/ gp.simplex = NULL THEN gp
    ELSE LET mx == IF mi THEN m.x ELSE Q(0)
             my == IF mi THEN m.y ELSE Q(0)
             dt == RAdd(gp.distortionTime, gp.mouseDistortionDecay)
             t == RMul(dt, Q(1000))
             orig == gp.originalPositions.at
             moved == [i \in DOMAIN gp.geometry.positions |->
                         MovedVertex(gp, orig[i][1], orig[i][2], mx, my, mi, t)]
         IN  [gp EXCEPT
                !.distortionTime = dt,
                !.geometry.positions = moved,
                !.originalPositions.at =
                    [i \in DOMAIN orig |->
                        << RSub(moved[i].x.v, moved[i].x.pull),
                           RSub(moved[i].y.v, moved[i].y.pull), orig[i][3] >>],
                !.cycle = RAdd(gp.cycle, gp.speed)]

\* moveNoise with distortionTime advanced after the loop, as the cycle is
moveNoise_ClockLast(gp, m, mi) ==
    IF gp.geometry = NULL \/ gp.simplex = NULL THEN gp
    ELSE LET mx == IF mi THEN m.x ELSE Q(0)
             my == IF mi THEN m.y ELSE Q(0)
             t == RMul(gp.distortionTime, Q(1000))
             orig == gp.originalPositions.at
         IN  [gp EXCEPT
                !.geometry.positions =
                    [i \in DOMAIN gp.geometry.positions |->
                        MovedVertex(gp, orig[i][1], orig[i][2], mx, my, mi, t)],
                !.distortionTime = RAdd(gp.distortionTime, gp.mouseDistortionDecay),
                !.cycle = RAdd(gp.cycle, gp.speed)]

\* groundPlain.moveNoise(mouse); mi is this.mouseInteraction
moveNoise(gp, m, mi) ==
    IF gp.geometry = NULL \/ gp.simplex = NULL THEN gp
    ELSE LET mx == IF mi THEN m.x ELSE Q(0)
             my == IF mi THEN m.y ELSE Q(0)
             dt == RAdd(gp.distortionTime, gp.mouseDistortionDecay)
             t == RMul(dt, Q(1000))
             orig == gp.originalPositions.at
         IN  [gp EXCEPT
                !.distortionTime = dt,
                !.geometry.positions =
                    [i \in DOMAIN gp.geometry.positions |->
                        MovedVertex(gp, orig[i][1], orig[i][2], mx, my, mi, t)],
                !.cycle = RAdd(gp.cycle, gp.speed)]

\* addEase dividing by ease + 1
addEase_OneMore(pos, to, ease) ==
    [i \in 1..3 |-> RAdd(pos[i], RDiv(RSub(to[i], pos[i]), RAdd(ease, Q(1))))]

addEase(pos, to, ease) ==
    [i \in 1..3 |-> RAdd(pos[i], RDiv(RSub(to[i], pos[i]), ease))]

\* update that eases the container whatever mouseInteraction is
update_Unguarded(gp, m, c) ==
    LET g == moveNoise(gp, m, c.mouseInteraction)
    IN  IF g.group # NULL
        THEN LET move == << RNeg(RMul(m.x, Frac(4, 100))),
                            RAdd(c.waveOffsetY, RMul(m.y, Frac(4, 100))),
                            g.move[3] >>
             IN  [g EXCEPT
                    !.move = move,
                    !.group.position = addEase(g.group.position, move, g.ease),
                    !.group.rotation = addEase(g.group.rotation, g.look, g.ease)]
        ELSE g

\* groundPlain.update(mouse); c holds the inputs the method reads from the component
update(gp, m, c) ==
    LET g == moveNoise(gp, m, c.mouseInteraction)
    IN  IF c.mouseInteraction /\ g.group # NULL
        THEN LET move == << RNeg(RMul(m.x, Frac(4, 100))),
                            RAdd(c.waveOffsetY, RMul(m.y, Frac(4, 100))),
                            g.move[3] >>
             IN  [g EXCEPT
                    !.move = move,
                    !.group.position = addEase(g.group.position, move, g.ease),
                    !.group.rotation = addEase(g.group.rotation, g.look, g.ease)]
        ELSE g

\* dispose that drops the geometry without releasing it
dispose_GeometryNotReleased(gp) ==
    [gp EXCEPT
        !.gpu = gp.gpu \ (IF gp.material # NULL THEN {"material"} ELSE {}),
        !.plane = NULL,
        !.geometry = NULL,
        !.material = NULL,
        !.simplex = NULL,
        !.group = NULL,
        !.originalPositions = EmptyArray]

\* groundPlain.dispose()
dispose(gp) ==
    [gp EXCEPT
        !.gpu = (gp.gpu \ (IF gp.geometry # NULL THEN {"geometry"} ELSE {}))
                       \ (IF gp.material # NULL THEN {"material"} ELSE {}),
        !.plane = NULL,
        !.geometry = NULL,
        !.material = NULL,
        !.simplex = NULL,
        !.group = NULL,
        !.originalPositions = EmptyArray]

\* the object createGroundPlain returns, before create() is called on it
createGroundPlain(c, id) ==
    [ id |-> id,
      quality |-> c.quality, segments |-> getQualitySettings(c.quality),
      gpu |-> {},
      group |-> NULL, geometry |-> NULL, material |-> NULL, plane |-> NULL,
      simplex |-> NULL,
      factor |-> c.smoothness, scale |-> c.amplitude, speed |-> c.speed,
      cycle |-> Q(0),
      ease |-> c.ease,
      move |-> <<Q(0), c.waveOffsetY, c.cameraDistance>>,
      \* Euler angles in degrees (the code keeps them times pi/180)
      look |-> <<c.waveRotation, Q(0), Q(0)>>,
      mouseDistortionStrength |-> c.mouseDistortionStrength,
      mouseDistortionSmoothness |-> c.mouseDistortionSmoothness,
      mouseDistortionDecay |-> c.mouseDistortionDecay,
      distortionTime |-> Q(0),
      mouseShrinkScaleStrength |-> c.mouseShrinkScaleStrength,
      mouseShrinkScaleRadius |-> c.mouseShrinkScaleRadius,
      originalPositions |-> EmptyArray ]

\* create without its closing moveNoise({x: 0, y: 0})
create_NoFirstPass(gp, c, chain) ==
    LET sx == gp.segments.width
        sy == gp.segments.height
        flat == [i \in DOMAIN PlaneGeometry[gp.quality].at |->
                    [ x |-> Exactly(PlaneGeometry[gp.quality].at[i][1]),
                      y |-> Exactly(PlaneGeometry[gp.quality].at[i][2]),
                      z |-> FlatHeight ]]
    IN  [gp EXCEPT
            !.group = [position |-> gp.move, rotation |-> gp.look, children |-> {"plane"}],
            !.geometry = [count |-> VertexCount(sx, sy), positions |-> flat],
            !.originalPositions = PlaneGeometry[gp.quality],
            !.material = MaterialOf(c, chain),
            !.gpu = {"geometry", "material"},
            !.plane = [position |-> <<Q(0), Q(0), Q(0)>>],
            !.simplex = [id |-> gp.id]]

\* groundPlain.create(scene): the engine after it; the scene gains the group
create(gp, c, chain) ==
    LET sx == gp.segments.width
        sy == gp.segments.height
        flat == [i \in DOMAIN PlaneGeometry[gp.quality].at |->
                    [ x |-> Exactly(PlaneGeometry[gp.quality].at[i][1]),
                      y |-> Exactly(PlaneGeometry[gp.quality].at[i][2]),
                      z |-> FlatHeight ]]
        made == [gp EXCEPT
                    !.group = [position |-> gp.move, rotation |-> gp.look, children |-> {}],
                    !.geometry = [count |-> VertexCount(sx, sy), positions |-> flat],
                    !.originalPositions = PlaneGeometry[gp.quality],
                    !.material = MaterialOf(c, chain),
                    !.gpu = {"geometry", "material"},
                    !.plane = [position |-> <<Q(0), Q(0), Q(0)>>],
                    !.simplex = [id |-> gp.id]]
        moved == moveNoise(made, [x |-> Q(0), y |-> Q(0)], c.mouseInteraction)
    IN  [moved EXCEPT !.group.children = {"plane"}]

(***************************************************************************)
(* The component.  Its methods are operators on the record of the whole    *)
(* state (the component's fields and what it has registered with the host).*)
(***************************************************************************)
NoHandle == 0

\* the state after construction: the field initialisers, nothing registered
Fresh(v, chain) ==
    [ cfg |-> Default,            \* the @Input() properties
      webGLFailed |-> FALSE,
      scene |-> NULL, camera |-> NULL, renderer |-> NULL,
      animationFrameId |-> NoHandle,
      mouse |-> [x |-> Q(0), y |-> Q(0)],
      pointLight |-> NULL, groundPlain |-> NULL,
      listeners |-> {},           \* window event listeners of this component
      frames |-> {},              \* handles of the pending requestAnimationFrame callbacks
      nextHandle |-> 1,           \* the host's animation frame callback identifier
      engines |-> 0,              \* engines created so far (object identities)
      retired |-> <<>>,           \* engines the component no longer references
      container |-> {},           \* canvases attached to the container element
      win |-> v,                  \* the viewport
      dom |-> chain,              \* computed background colours, container first
      thrown |-> FALSE ]          \* an exception escaped a handler

\* what is left of an engine object the component has dropped
Dropped(gp) ==
    [ id |-> gp.id, gpu |-> gp.gpu, geometry |-> gp.geometry # NULL,
      material |-> gp.material # NULL, simplex |-> gp.simplex # NULL,
      plane |-> gp.plane # NULL, group |-> gp.group # NULL,
      snapshot |-> gp.originalPositions.len ]

handleMouseMove(s, e) ==
    IF ~s.cfg.mouseInteraction THEN s
    ELSE [s EXCEPT !.mouse = [x |-> mouseCenterX(s.win, e), y |-> mouseCenterY(s.win, e)]]

\* handleResize that sets the aspect ratio and leaves the surface size
handleResize_NoSetSize(s) ==
    IF s.camera = NULL \/ s.renderer = NULL THEN s
    ELSE [s EXCEPT !.camera.aspect = screenRatio(s.win)]

handleResize(s) ==
    IF s.camera = NULL \/ s.renderer = NULL THEN s
    ELSE [s EXCEPT
            !.camera.aspect = screenRatio(s.win),
            !.renderer.size = <<screenWidth(s.win), screenHeight(s.win)>>]

\* cleanupScene without cancelAnimationFrame
cleanupScene_NoCancel(s) ==
    LET removed == (IF s.cfg.mouseInteraction THEN {"mousemove"} ELSE {}) \cup {"resize"}
    IN  [s EXCEPT
            !.listeners = s.listeners \ removed,
            !.retired = IF s.groundPlain # NULL
                        THEN Append(s.retired, Dropped(dispose(s.groundPlain)))
                        ELSE s.retired,
            !.groundPlain = NULL,
            !.container = IF s.renderer # NULL
                          THEN s.container \ {s.renderer.id} ELSE s.container,
            !.scene = NULL,
            !.camera = NULL,
            !.renderer = NULL,
            !.animationFrameId = NoHandle,
            !.pointLight = NULL]

\* cleanupScene that disposes the engine and keeps the reference to it
cleanupScene_EngineKept(s) ==
    LET removed == (IF s.cfg.mouseInteraction THEN {"mousemove"} ELSE {}) \cup {"resize"}
    IN  [s EXCEPT
            !.listeners = s.listeners \ removed,
            !.frames = IF s.animationFrameId # NoHandle
                       THEN s.frames \ {s.animationFrameId} ELSE s.frames,
            !.groundPlain = IF s.groundPlain # NULL THEN dispose(s.groundPlain) ELSE NULL,
            !.container = IF s.renderer # NULL
                          THEN s.container \ {s.renderer.id} ELSE s.container,
            !.scene = NULL,
            !.camera = NULL,
            !.renderer = NULL,
            !.animationFrameId = NoHandle,
            !.pointLight = NULL]

cleanupScene(s) ==
    LET removed == (IF s.cfg.mouseInteraction THEN {"mousemove"} ELSE {}) \cup {"resize"}
    IN  [s EXCEPT
            !.listeners = s.listeners \ removed,
            !.frames = IF s.animationFrameId # NoHandle
                       THEN s.frames \ {s.animationFrameId} ELSE s.frames,
            !.retired = IF s.groundPlain # NULL
                        THEN Append(s.retired, Dropped(dispose(s.groundPlain)))
                        ELSE s.retired,
            !.groundPlain = NULL,
            !.container = IF s.renderer # NULL
                          THEN s.container \ {s.renderer.id} ELSE s.container,
            !.scene = NULL,
            !.camera = NULL,
            !.renderer = NULL,
            !.animationFrameId = NoHandle,
            !.pointLight = NULL]

\* the guard of animate without the checks of renderer and engine
animateReady_SceneOnly(s) ==
    s.scene # NULL /\ s.camera # NULL

\* the guard of animate: everything the tick needs is there
animateReady(s) ==
    s.scene # NULL /\ s.camera # NULL /\ s.renderer # NULL /\ s.groundPlain # NULL

\* animate with the render before the engine's update
animate_RenderFirst(s) ==
    IF ~animateReady(s) THEN s
    ELSE IF s.groundPlain = NULL \/ s.renderer = NULL
    THEN [s EXCEPT !.thrown = TRUE]
    ELSE [s EXCEPT
            !.renderer.rendered = s.renderer.rendered + 1,
            !.renderer.shown = s.groundPlain.cycle,
            !.groundPlain = update(s.groundPlain, s.mouse, s.cfg),
            !.animationFrameId = s.nextHandle,
            !.frames = s.frames \cup {s.nextHandle},
            !.nextHandle = s.nextHandle + 1]

\* the closure animate of setupScene; renderer.shown is the cycle of the engine
\* the render drew
animate(s) ==
    IF ~animateReady(s) THEN s
    ELSE IF s.groundPlain = NULL \/ s.renderer = NULL
    THEN [s EXCEPT !.thrown = TRUE]
    ELSE LET updated == update(s.groundPlain, s.mouse, s.cfg)
         IN [s EXCEPT
            !.groundPlain = updated,
            !.renderer.rendered = s.renderer.rendered + 1,
            !.renderer.shown = updated.cycle,
            !.animationFrameId = s.nextHandle,
            !.frames = s.frames \cup {s.nextHandle},
            !.nextHandle = s.nextHandle + 1]

\* setupScene with the listeners registered before the renderer is created
setupScene_ListenersFirst(s, rebuild, glOk) ==
    LET s0 == IF rebuild THEN cleanupScene(s) ELSE s
        s1 == [s0 EXCEPT
                 !.scene = [children |-> {}],
                 !.camera = [fov |-> s0.cfg.fov, aspect |-> screenRatio(s0.win)],
                 !.listeners = (s0.listeners
                                 \cup (IF s0.cfg.mouseInteraction THEN {"mousemove"} ELSE {}))
                                 \cup {"resize"}]
        id == s0.engines + 1
        gp == create(createGroundPlain(s0.cfg, id), s0.cfg, s0.dom)
        s2 == [s1 EXCEPT
                 !.renderer = [id |-> id,
                               size |-> <<screenWidth(s0.win), screenHeight(s0.win)>>,
                               rendered |-> 0, shown |-> NULL],
                 !.container = s0.container \cup {id},
                 !.webGLFailed = FALSE,
                 !.pointLight = [color |-> determineWaveColor(s0.cfg, s0.dom)],
                 !.scene = [children |-> {"pointLight", "ambientLight", "group"}],
                 !.engines = id,
                 !.retired = IF s0.groundPlain # NULL
                             THEN Append(s0.retired, Dropped(s0.groundPlain))
                             ELSE s0.retired,
                 !.groundPlain = gp,
                 !.mouse = [x |-> screenCenterX(s0.win), y |-> screenCenterY(s0.win)]]
    IN  IF ~glOk THEN [s1 EXCEPT !.webGLFailed = TRUE]
        ELSE animate(s2)

\* setupScene(rebuild); glOk: whether new THREE.WebGLRenderer(...) succeeds
setupScene(s, rebuild, glOk) ==
    LET s0 == IF rebuild THEN cleanupScene(s) ELSE s
        s1 == [s0 EXCEPT
                 !.scene = [children |-> {}],
                 !.camera = [fov |-> s0.cfg.fov, aspect |-> screenRatio(s0.win)]]
        id == s0.engines + 1
        gp == create(createGroundPlain(s0.cfg, id), s0.cfg, s0.dom)
        s2 == [s1 EXCEPT
                 !.renderer = [id |-> id,
                               size |-> <<screenWidth(s0.win), screenHeight(s0.win)>>,
                               rendered |-> 0, shown |-> NULL],
                 !.container = s0.container \cup {id},
                 !.webGLFailed = FALSE,
                 !.pointLight = [color |-> determineWaveColor(s0.cfg, s0.dom)],
                 !.scene = [children |-> {"pointLight", "ambientLight", "group"}],
                 !.engines = id,
                 !.retired = IF s0.groundPlain # NULL
                             THEN Append(s0.retired, Dropped(s0.groundPlain))
                             ELSE s0.retired,
                 !.groundPlain = gp,
                 !.mouse = [x |-> screenCenterX(s0.win), y |-> screenCenterY(s0.win)],
                 !.listeners = (s0.listeners
                                 \cup (IF s0.cfg.mouseInteraction THEN {"mousemove"} ELSE {}))
                                 \cup {"resize"}]
    IN  IF ~glOk THEN [s1 EXCEPT !.webGLFailed = TRUE]
        ELSE animate(s2)

\* the heavy keys without fov
heavyKeys_NoFov ==
    { "quality", "smoothness", "amplitude", "speed", "waveOffsetY", "waveRotation",
      "cameraDistance", "mouseInteraction" }

heavyKeys ==
    { "quality", "smoothness", "amplitude", "speed", "waveOffsetY", "waveRotation",
      "cameraDistance", "fov", "mouseInteraction" }

\* ngOnChanges that leaves the point light as it is
ngOnChanges_LightKept(s, changes, glOk) ==
    IF s.scene = NULL \/ s.renderer = NULL \/ s.groundPlain = NULL THEN s
    ELSE LET s1 == IF s.groundPlain.material # NULL
                   THEN [s EXCEPT
                           !.groundPlain.material =
                               [MaterialOf(s.cfg, s.dom) EXCEPT !.needsUpdate = TRUE]]
                   ELSE s
         IN  IF changes \cap heavyKeys # {} THEN setupScene(s1, TRUE, glOk) ELSE s1

\* ngOnChanges that hands the new ease to the running engine
ngOnChanges_EaseApplied(s, changes, glOk) ==
    IF s.scene = NULL \/ s.renderer = NULL \/ s.groundPlain = NULL THEN s
    ELSE LET s1 == IF s.groundPlain.material # NULL
                   THEN [s EXCEPT
                           !.groundPlain.material =
                               [MaterialOf(s.cfg, s.dom) EXCEPT !.needsUpdate = TRUE],
                           !.groundPlain.ease = s.cfg.ease,
                           !.pointLight =
                               IF s.pointLight # NULL
                               THEN [color |-> determineWaveColor(s.cfg, s.dom)]
                               ELSE s.pointLight]
                   ELSE s
         IN  IF changes \cap heavyKeys # {} THEN setupScene(s1, TRUE, glOk) ELSE s1

\* ngOnChanges whose guard asks for the scene only: a heavy change rebuilds a
\* scene that has no renderer and no engine
ngOnChanges_SceneGuardOnly(s, changes, glOk) ==
    IF s.scene = NULL THEN s
    ELSE LET s1 == IF s.groundPlain # NULL /\ s.groundPlain.material # NULL
                   THEN [s EXCEPT
                           !.groundPlain.material =
                               [MaterialOf(s.cfg, s.dom) EXCEPT !.needsUpdate = TRUE],
                           !.pointLight =
                               IF s.pointLight # NULL
                               THEN [color |-> determineWaveColor(s.cfg, s.dom)]
                               ELSE s.pointLight]
                   ELSE s
         IN  IF changes \cap heavyKeys # {} THEN setupScene(s1, TRUE, glOk) ELSE s1

\* ngOnChanges(changes), the inputs already holding their new values
ngOnChanges(s, changes, glOk) ==
    IF s.scene = NULL \/ s.renderer = NULL \/ s.groundPlain = NULL THEN s
    ELSE LET s1 == IF s.groundPlain.material # NULL
                   THEN [s EXCEPT
                           !.groundPlain.material =
                               [MaterialOf(s.cfg, s.dom) EXCEPT !.needsUpdate = TRUE],
                           !.pointLight =
                               IF s.pointLight # NULL
                               THEN [color |-> determineWaveColor(s.cfg, s.dom)]
                               ELSE s.pointLight]
                   ELSE s
         IN  IF changes \cap heavyKeys # {} THEN setupScene(s1, TRUE, glOk) ELSE s1

(***************************************************************************)
(* The state machine: the host (Angular, the window) calls the handlers.   *)
(***************************************************************************)
Init ==
    /\ st \in { Fresh(v, chain) : v \in Viewports, chain \in DomChains }
    /\ phase = "constructed"

\* requestAnimationFrame has been called at most MaxFrames times
Within(s) == s.nextHandle <= MaxFrames + 1

\* ngAfterViewInit
Mount ==
    /\ phase = "constructed"
    /\ \E glOk \in BOOLEAN : st' = setupScene(st, FALSE, glOk)
    /\ Within(st')
    /\ phase' = "mounted"

\* a binding changes some inputs, then ngOnChanges runs; WebGL may fail only
\* where a renderer is created
Change ==
    /\ phase \in {"constructed", "mounted"}
    /\ \E c \in Configs \ {st.cfg}, glOk \in BOOLEAN :
         /\ glOk \/ (st.groundPlain # NULL /\ Changed(st.cfg, c) \cap heavyKeys # {})
         /\ st' = ngOnChanges([st EXCEPT !.cfg = c], Changed(st.cfg, c), glOk)
    /\ Within(st')
    /\ UNCHANGED phase

\* the host runs a pending animation frame callback
Tick ==
    /\ \E h \in st.frames : st' = animate([st EXCEPT !.frames = st.frames \ {h}])
    /\ Within(st')
    /\ UNCHANGED phase

\* the window delivers a mousemove event to the registered listener
MouseMove ==
    /\ "mousemove" \in st.listeners
    /\ \E e \in MouseEvents : st' = handleMouseMove(st, e)
    /\ UNCHANGED phase

\* the viewport changes; a registered resize listener runs
Resize ==
    /\ \E v \in Viewports \ {st.win} :
         st' = IF "resize" \in st.listeners
               THEN handleResize([st EXCEPT !.win = v])
               ELSE [st EXCEPT !.win = v]
    /\ UNCHANGED phase

\* ngOnDestroy
Destroy ==
    /\ phase \in {"constructed", "mounted"}
    /\ st' = cleanupScene(st)
    /\ phase' = "destroyed"

Next == Mount \/ Change \/ Tick \/ MouseMove \/ Resize \/ Destroy

Spec == Init /\ [][Next]_vars

\* the host runs an animation frame callback although none is pending any more:
\* the tick that races with a teardown
StaleFrame ==
    /\ st.nextHandle > 1
    /\ st.frames = {}
    /\ st' = animate(st)
    /\ Within(st')
    /\ UNCHANGED phase

NextRace == Next \/ StaleFrame

SpecRace == Init /\ [][NextRace]_vars

\* a requested animation frame callback can run: ENABLED <<Tick>>_vars, written
\* out on the handler (the step takes h out of frames, so it changes vars)
TickDue ==
    \E h \in st.frames : Within(animate([st EXCEPT !.frames = st.frames \ {h}]))

\* the host runs every animation frame callback that stays requested: weak
\* fairness of Tick, WF_vars(Tick), with its ENABLED written as TickDue
TickFairness == []<>(~TickDue) \/ []<><<Tick>>_vars

SpecLive == Init /\ [][Next]_vars /\ TickFairness

(***************************************************************************)
(* Vocabulary of the properties.                                           *)
(***************************************************************************)
\* the scene is Active: set up, and not torn down since
Active(s) == s.scene # NULL /\ s.renderer # NULL /\ s.groundPlain # NULL

\* the calls of setupScene the host can cause in the current state, as
\* <<state at the call, rebuild>>: the initial one from ngAfterViewInit, and the
\* rebuilds ngOnChanges makes when one heavy input of an Active scene changes
SetupCalls ==
    IF phase = "constructed" THEN { <<st, FALSE>> }
    ELSE IF phase = "mounted" /\ Active(st)
    THEN { <<[st EXCEPT !.cfg = c], TRUE>> :
             c \in { v \in Variants(st.cfg) : Changed(st.cfg, v) \cap heavyKeys # {} } }
    ELSE {}

\* engines whose geometry has not been disposed of
LiveEngines(s) ==
    { i \in 1..Len(s.retired) : s.retired[i].geometry \/ "geometry" \in s.retired[i].gpu }

(***************************************************************************)
(* C1: after cleanupScene() returns, neither the mousemove listener nor    *)
(* the resize listener is still registered on the window.  The component   *)
(* runs cleanupScene last in ngOnDestroy, so a destroyed component has no  *)
(* listener left.                                                          *)
(***************************************************************************)
C1_NoListenerAfterCleanup ==
    /\ cleanupScene(st).listeners = {}
    /\ phase = "destroyed" => st.listeners = {}

(***************************************************************************)
(* C2: when the rendering context cannot be created inside setupScene      *)
(* (initial or rebuild), no exception escapes, webGLFailed is true         *)
(* afterwards, the call has registered no listener, scheduled no animation *)
(* callback and left no mesh engine; after a successful setupScene the     *)
(* flag is false.                                                          *)
(***************************************************************************)
C2_FailedSetupIsClean ==
    /\ \A call \in SetupCalls :
         LET s == call[1]
             t == setupScene(s, call[2], FALSE)
         IN  /\ ~t.thrown
             /\ t.webGLFailed
             /\ t.listeners \subseteq s.listeners
             /\ t.frames = {} /\ t.animationFrameId = NoHandle
             /\ t.nextHandle = s.nextHandle
             /\ t.groundPlain = NULL /\ t.engines = s.engines
             /\ \A i \in 1..Len(t.retired) : ~t.retired[i].geometry
    /\ st.webGLFailed =>
         /\ ~st.thrown
         /\ st.groundPlain = NULL /\ st.renderer = NULL
         /\ st.frames = {} /\ st.animationFrameId = NoHandle
         /\ "resize" \notin st.listeners
    /\ Active(st) => ~st.webGLFailed

\* a rebuild has failed: an engine existed, and the scene is degraded
C2_Witness ==
    /\ phase = "mounted" /\ st.webGLFailed
    /\ st.retired # <<>> /\ st.scene # NULL /\ st.camera # NULL

(***************************************************************************)
(* C3: a tick that runs while scene, camera, renderer or mesh engine is    *)
(* absent changes nothing: no engine update, no render, no new callback.   *)
(***************************************************************************)
C3_GuardedTickIsNoOp ==
    (st.scene = NULL \/ st.camera = NULL \/ st.renderer = NULL \/ st.groundPlain = NULL)
        => animate(st) = st

\* a frame was requested once, the scene has been torn down or is degraded, and
\* the late callback can run
C3_Witness ==
    /\ ENABLED StaleFrame
    /\ st.scene # NULL /\ st.camera # NULL /\ st.renderer = NULL /\ st.groundPlain = NULL

(***************************************************************************)
(* C4: at most one animation frame callback is pending at any time, it is  *)
(* the one animationFrameId names and it belongs to an Active scene; after *)
(* cleanupScene() none is pending and animationFrameId is null.            *)
(***************************************************************************)
C4_OnePendingFrame ==
    /\ Cardinality(st.frames) <= 1
    /\ st.frames # {} => st.frames = {st.animationFrameId} /\ Active(st)
    /\ LET t == cleanupScene(st)
       IN  t.frames = {} /\ t.animationFrameId = NoHandle
    /\ phase = "destroyed" => st.frames = {} /\ st.animationFrameId = NoHandle

\* a rebuild has replaced the pending callback of the first scene, which had ticked
C4_Witness ==
    /\ st.engines >= 2 /\ Active(st)
    /\ st.retired # <<>>
    /\ Cardinality(st.frames) = 1 /\ st.animationFrameId >= 3

(***************************************************************************)
(* C5: at most one engine with live geometry exists at any time: every     *)
(* engine the component has dropped is fully disposed (geometry, material, *)
(* noise function and snapshot cleared).                                   *)
(***************************************************************************)
C5_OneLiveEngine ==
    /\ LiveEngines(st) = {}
    /\ \A i \in 1..Len(st.retired) :
         LET e == st.retired[i]
         IN  /\ e.gpu = {} /\ ~e.geometry /\ ~e.material /\ ~e.simplex
             /\ ~e.plane /\ ~e.group /\ e.snapshot = 0
             /\ st.groundPlain # NULL => e.id < st.groundPlain.id
    /\ st.groundPlain # NULL =>
         /\ st.groundPlain.geometry # NULL
         /\ st.groundPlain.id = st.engines

\* a second engine is running and the first has been dropped
C5_Witness ==
    /\ st.groundPlain # NULL /\ st.groundPlain.id = 2
    /\ Len(st.retired) = 1 /\ st.retired[1].id = 1

(***************************************************************************)
(* C6: for an Active scene, ngOnChanges rebuilds (setupScene(true): the    *)
(* old engine is dropped) if and only if the change set contains one of    *)
(* quality, smoothness, amplitude, speed, waveOffsetY, waveRotation,       *)
(* cameraDistance, fov, mouseInteraction.  Checked for every change of one *)
(* input, and of two inputs of which one is opacity or quality.            *)
(***************************************************************************)
C6_Reconfigurations ==
    Variants(st.cfg) \cup
    UNION { Variants(v) : v \in { w \in Variants(st.cfg) :
                                    Changed(st.cfg, w) \subseteq {"opacity", "quality"} } }

C6_RebuildIffHeavy ==
    (phase = "mounted" /\ Active(st)) =>
        \A c \in C6_Reconfigurations \ {st.cfg} :
            LET changes == Changed(st.cfg, c)
                heavy == changes \cap
                           { "quality", "smoothness", "amplitude", "speed", "waveOffsetY",
                             "waveRotation", "cameraDistance", "fov", "mouseInteraction" } # {}
                failed == ngOnChanges([st EXCEPT !.cfg = c], changes, FALSE)
            IN  /\ heavy <=> Len(failed.retired) = Len(st.retired) + 1
                /\ heavy <=> failed.groundPlain = NULL
                /\ Cardinality(changes) = 1 =>
                     LET done == ngOnChanges([st EXCEPT !.cfg = c], changes, TRUE)
                     IN  /\ heavy <=> done.engines = st.engines + 1
                         /\ ~heavy => /\ done.groundPlain.id = st.groundPlain.id
                                      /\ done.renderer = st.renderer
                                      /\ done.frames = st.frames

\* a change of quality has rebuilt the Active scene: the first engine is dropped,
\* the second one runs
C6_Witness ==
    /\ phase = "mounted" /\ Active(st)
    /\ st.engines = 2 /\ Len(st.retired) = 1
    /\ st.cfg.quality = "high"

(***************************************************************************)
(* C7: when a change of quality triggers a rebuild, then after ngOnChanges *)
(* has returned and before the next scheduled tick, the new engine has run *)
(* two passes of moveNoise (the one of create and the one of the first,    *)
(* synchronous tick of setupScene): its cycle is 2 x speed, its            *)
(* distortionTime is 2 x mouseDistortionDecay, and originalPositions is a  *)
(* fresh snapshot with the vertex count of the new quality tier.           *)
(***************************************************************************)
C7_QualityRebuild(cycles) ==
    /\ (phase = "mounted" /\ Active(st)) =>
         \A q \in Qualities \ {st.cfg.quality} :
            LET t == ngOnChanges([st EXCEPT !.cfg.quality = q], {"quality"}, TRUE)
                gp == t.groundPlain
                seg == getQualitySettings(q)
            IN  /\ gp # NULL /\ gp.id = st.engines + 1
                /\ t.renderer.rendered = 1
                /\ gp.cycle = RMul(Q(cycles), t.cfg.speed)
                /\ gp.distortionTime = RMul(Q(cycles), t.cfg.mouseDistortionDecay)
                /\ gp.originalPositions.len = 3 * (seg.width + 1) * (seg.height + 1)
                /\ gp.originalPositions = PlaneGeometry[q]
                /\ gp.geometry.count = (seg.width + 1) * (seg.height + 1)
                /\ t.retired[Len(t.retired)].snapshot = 0
    /\ (Active(st) /\ st.renderer.rendered = 1) =>
         /\ st.groundPlain.cycle = RMul(Q(cycles), st.cfg.speed)
         /\ st.groundPlain.distortionTime = RMul(Q(cycles), st.cfg.mouseDistortionDecay)

C7_RebuiltEngineHasRunTwoPasses == C7_QualityRebuild(2)

\* the statement as the specification has it: both clocks are 0
C7_RebuiltEngineStartsAtZero == C7_QualityRebuild(0)

\* a quality change has rebuilt the scene and no scheduled tick has run since
C7_Witness ==
    /\ phase = "mounted" /\ Active(st)
    /\ st.engines >= 2 /\ st.renderer.rendered = 1
    /\ st.cfg.quality # "medium" /\ st.groundPlain.quality = st.cfg.quality
    /\ st.groundPlain.originalPositions.len = 3 * st.groundPlain.geometry.count

(***************************************************************************)
(* C8: after a scene is set up and n scheduled ticks have run, the         *)
(* engine's cycle is (n + 2) x speed, and the base height in the buffer,   *)
(* written by the last pass, is noise2D(ox/factor, oy/factor + phase) x    *)
(* amplitude with phase = (n + 1) x speed.                                 *)
(***************************************************************************)
C8_Ticks == st.renderer.rendered - 1

C8_CycleAfterTicks ==
    Active(st) =>
        LET gp == st.groundPlain
            n == C8_Ticks
            orig == gp.originalPositions.at
        IN  /\ n >= 0
            /\ gp.speed = st.cfg.speed
            /\ gp.cycle = RMul(Q(n + 2), st.cfg.speed)
            /\ \A i \in DOMAIN gp.geometry.positions :
                 LET z == gp.geometry.positions[i].z
                 IN  /\ z.simplex = gp.id
                     /\ z.x = Arg(orig[i][1], st.cfg.smoothness, Zero)
                     /\ z.y = Arg(orig[i][2], st.cfg.smoothness,
                                  RMul(Q(n + 1), st.cfg.speed))
                     /\ z.scale = st.cfg.amplitude

\* the statement as the specification has it: cycle = n x speed
C8_CycleIsTicksTimesSpeed ==
    (Active(st) /\ st.engines = 1) =>
        st.groundPlain.cycle = RMul(Q(C8_Ticks), st.cfg.speed)

\* the mounted scene, never rebuilt, has run two scheduled ticks
C8_Witness ==
    /\ Active(st) /\ st.engines = 1
    /\ C8_Ticks = 2
    /\ st.groundPlain.cycle = RMul(Q(4), st.cfg.speed)

(***************************************************************************)
(* C9: cleanupScene() is idempotent: on every state (Active, never set up, *)
(* failed, torn down) it raises no error and leaves scene, camera,         *)
(* renderer, groundPlain, pointLight and animationFrameId null, and a      *)
(* second call changes nothing; dispose() on a disposed engine changes     *)
(* nothing either.                                                         *)
(***************************************************************************)
C9_CleanupIdempotent ==
    LET once == cleanupScene(st)
        twice == cleanupScene(once)
    IN  /\ ~once.thrown /\ ~twice.thrown
        /\ \A s \in {once, twice} :
             /\ s.scene = NULL /\ s.camera = NULL /\ s.renderer = NULL
             /\ s.groundPlain = NULL /\ s.pointLight = NULL
             /\ s.animationFrameId = NoHandle
        /\ twice = once
        /\ phase = "destroyed" => once = st
        /\ st.groundPlain # NULL =>
             LET d == dispose(st.groundPlain)
             IN  /\ dispose(d) = d
                 /\ d.geometry = NULL /\ d.material = NULL /\ d.gpu = {}
                 /\ d.originalPositions.len = 0

\* the component was destroyed after a rebuild had failed: teardown has run on
\* a scene that an earlier teardown had emptied
C9_Witness ==
    /\ phase = "destroyed" /\ st.webGLFailed
    /\ st.retired # <<>> /\ st.scene = NULL

(***************************************************************************)
(* C10: with mouseInteraction = false the buffer moveNoise writes does not *)
(* depend on the pointer nor on the distortion state: whatever the pointer *)
(* coordinates, distortionTime and the ripple and shrink parameters, every *)
(* vertex gets x = ox, y = oy and z = noise2D(ox/factor, oy/factor +       *)
(* cycle) x amplitude.                                                     *)
(***************************************************************************)
C10_Pointers ==
    { st.mouse, [x |-> Q(0), y |-> Q(0)], [x |-> Q(10), y |-> Q(990)] }

C10_Distortions ==
    [ distortionTime : {Zero, Q(5)},
      mouseDistortionStrength : {Zero, Half},
      mouseShrinkScaleStrength : {Zero, Frac(7, 10)},
      mouseShrinkScaleRadius : {Q(200), Q(4000)} ]

C10_BaseWave(gp, cycle, buffer) ==
    \A i \in DOMAIN buffer :
        LET ox == gp.originalPositions.at[i][1]
            oy == gp.originalPositions.at[i][2]
        IN  buffer[i] =
              [ x |-> Exactly(ox), y |-> Exactly(oy),
                z |-> Height(gp.id, Arg(ox, gp.factor, Zero), Arg(oy, gp.factor, cycle),
                             gp.scale, NoRipple) ]

C10_BufferIgnoresPointer ==
    Active(st) =>
        /\ \A m \in C10_Pointers, d \in C10_Distortions :
             LET gp == [st.groundPlain EXCEPT
                          !.distortionTime = d.distortionTime,
                          !.mouseDistortionStrength = d.mouseDistortionStrength,
                          !.mouseShrinkScaleStrength = d.mouseShrinkScaleStrength,
                          !.mouseShrinkScaleRadius = d.mouseShrinkScaleRadius]
                 out == moveNoise(gp, m, FALSE)
             IN  /\ DOMAIN out.geometry.positions = DOMAIN st.groundPlain.originalPositions.at
                 /\ C10_BaseWave(st.groundPlain, st.groundPlain.cycle, out.geometry.positions)
        /\ ~st.cfg.mouseInteraction =>
             C10_BaseWave(st.groundPlain, RSub(st.groundPlain.cycle, st.groundPlain.speed),
                          st.groundPlain.geometry.positions)

\* an engine built with mouseInteraction = false has ticked after the pointer
\* state had been set to the screen centre
C10_Witness ==
    /\ Active(st) /\ ~st.cfg.mouseInteraction
    /\ st.renderer.rendered >= 2
    /\ st.mouse # [x |-> Q(0), y |-> Q(0)]

(***************************************************************************)
(* C11: after a successful setupScene, and before any pointer-move event   *)
(* is delivered, the pointer state is the one handleMouseMove stores for a *)
(* pointer event at the centre of the viewport, the offset (0, 0).         *)
(***************************************************************************)
C11_CentreEvent(v) ==
    [clientX |-> screenCenterX(v), clientY |-> screenCenterY(v)]

C11_PointerStartsAtCentre ==
    \A call \in SetupCalls :
        LET t == setupScene(call[1], call[2], TRUE)
            e == C11_CentreEvent(t.win)
            atCentre == [x |-> RSub(e.clientX, screenCenterX(t.win)),
                         y |-> RSub(e.clientY, screenCenterY(t.win))]
        IN  /\ atCentre = [x |-> Zero, y |-> Zero]
            /\ t.mouse = atCentre

(***************************************************************************)
(* C12: in every reachable state the pointer-move listener is registered   *)
(* if and only if the scene is Active and mouseInteraction is enabled; in  *)
(* particular it is not registered once a change of mouseInteraction from  *)
(* true to false has been applied.                                         *)
(***************************************************************************)
C12_ListenerIffActiveAndEnabled ==
    "mousemove" \in st.listeners <=> (Active(st) /\ st.cfg.mouseInteraction)

(***************************************************************************)
(* C13: between an engine's create and its dispose, whatever ticks,        *)
(* pointer events, resizes and cheap reconfigurations happen, the snapshot *)
(* originalPositions is the flat grid captured at creation, and the live   *)
(* position buffer has the length of the snapshot.                         *)
(***************************************************************************)
C13_SnapshotImmutable ==
    Active(st) =>
        LET gp == st.groundPlain
            seg == getQualitySettings(st.cfg.quality)
            snap == gp.originalPositions
        IN  /\ snap.len = 3 * (seg.width + 1) * (seg.height + 1)
            /\ 3 * gp.geometry.count = snap.len
            /\ DOMAIN gp.geometry.positions = DOMAIN snap.at
            /\ \A i \in DOMAIN snap.at :
                 /\ snap.at[i] = VertexAt(i, seg.width, seg.height)
                 /\ snap.at[i][3] = Zero

\* the engine has ticked with a pointer close enough to a vertex to move it in
\* the plane, so the buffer differs from the snapshot in x, y
C13_Witness ==
    /\ Active(st) /\ st.renderer.rendered >= 2
    /\ \E i \in DOMAIN st.groundPlain.geometry.positions :
         ~st.groundPlain.geometry.positions[i].x.exact

(***************************************************************************)
(* C14: the mesh is created with the segment pair of its quality tier      *)
(* (low 64 x 32, medium 128 x 64, high 256 x 128, anything else as         *)
(* medium), so it has 65 x 33, 129 x 65 or 257 x 129 vertices, and the     *)
(* vertex count of an engine changes by no tick and by no reconfiguration  *)
(* that does not rebuild.                                                  *)
(***************************************************************************)
C14_Table ==
    [ low |-> <<64, 32, 65 * 33>>, medium |-> <<128, 64, 129 * 65>>,
      high |-> <<256, 128, 257 * 129>> ]

C14_QualityTable ==
    /\ \A q \in Qualities :
         /\ getQualitySettings(q) = [width |-> C14_Table[q][1], height |-> C14_Table[q][2]]
         /\ createGroundPlain([st.cfg EXCEPT !.quality = q], 1).segments = getQualitySettings(q)
    /\ getQualitySettings("ultra") = [width |-> 128, height |-> 64]
    /\ Active(st) =>
         LET gp == st.groundPlain
             count == C14_Table[st.cfg.quality][3]
         IN  /\ gp.quality = st.cfg.quality
             /\ gp.geometry.count = count
             /\ gp.originalPositions.len = 3 * count
             /\ animate(st).groundPlain.geometry.count = count
             /\ phase = "mounted" =>
                  \A c \in { v \in Variants(st.cfg) : Changed(st.cfg, v) \cap heavyKeys = {} } :
                     LET t == ngOnChanges([st EXCEPT !.cfg = c], Changed(st.cfg, c), TRUE)
                     IN  /\ t.groundPlain.id = gp.id
                         /\ t.groundPlain.geometry.count = count

\* a rebuild has replaced the medium mesh by the high one
C14_Witness ==
    /\ Active(st) /\ st.engines >= 2
    /\ st.cfg.quality = "high"
    /\ st.groundPlain.geometry.count = 33153

(***************************************************************************)
(* C15: one easing step moves each component of position and rotation,     *)
(* independently of the others, by (target - current)/ease: with ease = 1  *)
(* the value is the target after one step, with ease = 12 it has moved     *)
(* 1/12 of the remaining distance, and for ease >= 1 the distance to the   *)
(* target does not grow.  The tick of an engine with mouseInteraction      *)
(* applies exactly this step to the group's position and rotation.         *)
(***************************************************************************)
C15_Dist(a, b) == LET d == RSub(a, b) IN IF d[1] < 0 THEN RNeg(d) ELSE d

C15_Eases == { Q(1), Frac(3, 2), Q(12) }

C15_Target(s) ==
    << RNeg(RMul(s.mouse.x, Frac(4, 100))),
       RAdd(s.cfg.waveOffsetY, RMul(s.mouse.y, Frac(4, 100))),
       s.groundPlain.move[3] >>

C15_EasingStep ==
    Active(st) =>
        LET gp == st.groundPlain
            to == C15_Target(st)
        IN  /\ \A p \in {gp.group.position, gp.group.rotation},
                  t \in {to, gp.look, <<Q(1), Q(-7), Frac(1, 3)>>} :
                 /\ addEase(p, t, Q(1)) = t
                 /\ LET q == addEase(p, t, Q(12))
                    IN  \A i \in 1..3 : RSub(q[i], p[i]) = RDiv(RSub(t[i], p[i]), Q(12))
                 /\ \A e \in C15_Eases :
                      LET q == addEase(p, t, e)
                          r == addEase(p, <<Q(5), Q(5), Q(5)>>, e)
                      IN  \A i \in 1..3 :
                            /\ q[i] = RAdd(p[i], RDiv(RSub(t[i], p[i]), e))
                            /\ ~RLess(C15_Dist(t[i], p[i]), C15_Dist(t[i], q[i]))
                            /\ addEase(p, [t EXCEPT ![i] = Q(5)], e)[i] = r[i]
            /\ st.cfg.mouseInteraction =>
                 LET g == update(gp, st.mouse, st.cfg)
                 IN  /\ g.move = to
                     /\ g.group.position = addEase(gp.group.position, to, gp.ease)
                     /\ g.group.rotation = addEase(gp.group.rotation, gp.look, gp.ease)
                     /\ gp.ease = Q(1) => g.group.position = to
                     /\ \A i \in 1..3 :
                          ~RLess(C15_Dist(to[i], gp.group.position[i]),
                                 C15_Dist(to[i], g.group.position[i]))

\* an engine made with ease = 1 has ticked: its group has left the place where
\* create put it and sits on the target the tick computed from the pointer
C15_Witness ==
    /\ Active(st) /\ st.cfg.mouseInteraction
    /\ st.groundPlain.ease = Q(1)
    /\ st.renderer.rendered >= 2
    /\ st.groundPlain.group.position = st.groundPlain.move
    /\ st.groundPlain.group.position # <<Q(0), st.cfg.waveOffsetY, st.cfg.cameraDistance>>

(***************************************************************************)
(* C16: determineWaveColor follows the fallback chain: a set waveColor     *)
(* gives the parsed waveColor whatever the DOM; otherwise, with            *)
(* autoDetectBackground on and an ancestor (from the container up) with a  *)
(* non-transparent background, white if that background's luminance       *)
(* 0.299R + 0.587G + 0.114B is below 0.5 and black if not (0.5 included);  *)
(* otherwise black.                                                        *)
(***************************************************************************)
C16_Chains ==
    { <<>>,
      <<"transparent", "", "rgba(0, 0, 0, 0)">>,
      <<"rgba(0, 0, 0, 0)", "rgb(20, 20, 20)", "rgb(250, 250, 250)">>,
      <<"rgb(250, 250, 250)", "rgb(20, 20, 20)">>,
      <<"transparent", "rgb(0, 204, 68)">>,
      <<"rgb(128, 128, 128)">> }

C16_Opaque(chain) ==
    { i \in 1..Len(chain) : chain[i] \notin {"", "rgba(0, 0, 0, 0)", "transparent"} }

\* luminance times 255000
C16_Luminance(bg) == 299 * ColorTable[bg].r + 587 * ColorTable[bg].g + 114 * ColorTable[bg].b

C16_Expected(wave, auto, chain) ==
    IF wave # ""
    THEN (IF wave = "#ff0000" THEN [r |-> 255, g |-> 0, b |-> 0] ELSE White)
    ELSE IF auto /\ C16_Opaque(chain) # {}
    THEN LET first == CHOOSE i \in C16_Opaque(chain) : \A j \in C16_Opaque(chain) : i <= j
         IN  IF C16_Luminance(chain[first]) < 127500 THEN White ELSE Black
    ELSE Black

C16_ColourChain ==
    /\ \A wave \in {"", "#ff0000", "no colour"}, auto \in BOOLEAN,
          chain \in C16_Chains \cup {st.dom} :
         determineWaveColor([st.cfg EXCEPT !.waveColor = wave, !.autoDetectBackground = auto],
                            chain)
           = C16_Expected(wave, auto, chain)
    /\ Active(st) =>
         LET colour == C16_Expected(st.cfg.waveColor, st.cfg.autoDetectBackground, st.dom)
         IN  /\ st.groundPlain.material.color = colour
             /\ st.pointLight.color = colour

\* no waveColor is set, and the scene took white from the dark ancestor
C16_Witness ==
    /\ Active(st)
    /\ st.cfg.waveColor = "" /\ st.cfg.autoDetectBackground
    /\ st.groundPlain.material.color = White /\ st.pointLight.color = White

(***************************************************************************)
(* C18: the backgroundColor input takes part in the colour fallback chain: *)
(* there are two configurations that differ in backgroundColor only, with  *)
(* the same DOM, whose resolved wave colours differ.                       *)
(***************************************************************************)
C18_BackgroundColorMatters ==
    \E wave \in {"", "#ff0000"}, auto \in BOOLEAN, chain \in C16_Chains \cup {st.dom},
       bg \in {"#000000", "#ff0000", "rgb(250, 250, 250)", "rgb(20, 20, 20)"} :
        LET c == [st.cfg EXCEPT !.waveColor = wave, !.autoDetectBackground = auto,
                                !.backgroundColor = ""]
        IN  determineWaveColor([c EXCEPT !.backgroundColor = bg], chain)
              # determineWaveColor(c, chain)

(***************************************************************************)
(* C17: for a radius > 0 the shrink falloff is exactly 1 at distance 0,    *)
(* exactly 0 at every distance >= mouseShrinkScaleRadius, (1 - d/radius)^2 *)
(* in between, and does not increase with the distance; a vertex at or     *)
(* beyond the radius keeps its original x, y.                              *)
(***************************************************************************)
C17_Radii == { Frac(1, 2), Q(200), Q(400) }

C17_Distances(r) ==
    { Zero, RDiv(r, Q(4)), RDiv(r, Q(2)), RSub(r, Frac(1, 8)), r,
      RAdd(r, Frac(1, 8)), RMul(r, Q(2)), Q(5000) }

\* the function by itself, at the distances above
C17_FalloffShape ==
    \A r \in C17_Radii :
    /\ shrinkFalloff(Zero, r) = Q(1)
    /\ \A d \in C17_Distances(r) :
         LET f == shrinkFalloff(d, r)
             one == RSub(Q(1), RDiv(d, r))
         IN  /\ ~RLess(d, r) => f = Zero
             /\ RLess(d, r) => f = RMul(one, one)
             /\ Falloff(RSq(d), r).kind = "zero" <=> f = Zero
             /\ Falloff(RSq(d), r).kind = "one" <=> f = Q(1)
             /\ \A e \in C17_Distances(r) :
                  RLess(d, e) => ~RLess(f, shrinkFalloff(e, r))

C17_ShrinkFalloff ==
    /\ C17_FalloffShape
    /\ (Active(st) /\ RPos(st.groundPlain.mouseShrinkScaleStrength)) =>
         LET gp == st.groundPlain
             r == gp.mouseShrinkScaleRadius
             corner == gp.originalPositions.at[0]
             pointers == { st.mouse,
                           [x |-> RAdd(corner[1], r), y |-> corner[2]],
                           [x |-> RAdd(corner[1], RDiv(r, Q(2))), y |-> corner[2]] }
         IN  \A m \in pointers :
                LET out == moveNoise(gp, m, TRUE).geometry.positions
                IN  \A i \in DOMAIN out :
                      LET o == gp.originalPositions.at[i]
                          d2 == RAdd(RSq(RSub(o[1], m.x)), RSq(RSub(o[2], m.y)))
                      IN  /\ ~RLess(d2, RSq(r)) =>
                               out[i].x = Exactly(o[1]) /\ out[i].y = Exactly(o[2])
                          /\ (RLess(d2, RSq(r)) /\ o[1] # m.x) => ~out[i].x.exact

\* a tick has pulled a vertex inside the radius towards the pointer and left one
\* outside it where it was
C17_Witness ==
    /\ Active(st) /\ st.cfg.mouseInteraction
    /\ \E i, j \in DOMAIN st.groundPlain.geometry.positions :
         /\ st.groundPlain.geometry.positions[i].x.falloff.kind = "part"
         /\ st.groundPlain.geometry.positions[j].x.exact
         /\ st.groundPlain.geometry.positions[j].y.exact

(***************************************************************************)
(* C19: each moveNoise call advances cycle by exactly speed and            *)
(* distortionTime by exactly mouseDistortionDecay, once per call whatever  *)
(* the vertex count.  The cycle advances after the vertices are written:   *)
(* every vertex is computed with the cycle the call began with.            *)
(* distortionTime advances before them: the ripple of every vertex is      *)
(* computed with the advanced distortionTime.                              *)
(***************************************************************************)
\* advanced: whether the vertices are computed with the distortionTime the call
\* has advanced, or with the one it began with
C19_OnePass(advanced) ==
    Active(st) =>
        LET gp == st.groundPlain
        IN  /\ \A mi \in BOOLEAN :
                 LET out == moveNoise(gp, st.mouse, mi)
                     t == RMul(IF advanced THEN out.distortionTime ELSE gp.distortionTime, Q(1000))
                 IN  /\ out.cycle = RAdd(gp.cycle, st.cfg.speed)
                     /\ out.distortionTime =
                          RAdd(gp.distortionTime, st.cfg.mouseDistortionDecay)
                     /\ \A i \in DOMAIN out.geometry.positions :
                          LET z == out.geometry.positions[i].z
                          IN  /\ z.y.plus = gp.cycle
                              /\ z.ripple.on <=> (mi /\ RPos(gp.mouseDistortionStrength))
                              /\ z.ripple.on =>
                                   z.ripple.x.plus = t /\ z.ripple.y.plus = RNeg(t)
            /\ \A i \in DOMAIN gp.geometry.positions :
                 LET z == gp.geometry.positions[i].z
                     t == RMul(IF advanced THEN gp.distortionTime
                               ELSE RSub(gp.distortionTime, gp.mouseDistortionDecay), Q(1000))
                 IN  /\ z.y.plus = RSub(gp.cycle, gp.speed)
                     /\ z.ripple.on => z.ripple.x.plus = t

C19_ClockAdvancesFirst == C19_OnePass(TRUE)

\* the statement as the specification has it: both advances follow the vertices
C19_BothAdvanceLast == C19_OnePass(FALSE)

\* scheduled ticks have run on an engine with ripple, and its buffer holds the
\* ripple taken at the distortionTime the engine has now
C19_Witness ==
    /\ Active(st) /\ st.cfg.mouseInteraction /\ st.renderer.rendered >= 3
    /\ st.groundPlain.distortionTime =
         RMul(Q(st.renderer.rendered + 1), st.cfg.mouseDistortionDecay)
    /\ \E i \in DOMAIN st.groundPlain.geometry.positions :
         LET z == st.groundPlain.geometry.positions[i].z
         IN  /\ z.ripple.on
             /\ z.ripple.x.plus = RMul(st.groundPlain.distortionTime, Q(1000))

(***************************************************************************)
(* C20: in an Active scene every tick performs one engine update with the  *)
(* current pointer state, then one render (which draws the updated         *)
(* engine), and schedules exactly one next tick; so, if the host runs      *)
(* every callback that stays requested, each requested tick is followed by *)
(* the tick itself, which advances the cycle, unless a teardown comes      *)
(* first.                                                                  *)
(***************************************************************************)
C20_TickStep ==
    Active(st) =>
        /\ st.renderer.rendered >= 1
        /\ st.renderer.shown = st.groundPlain.cycle
        /\ st.frames = {st.animationFrameId}
        /\ LET t == animate(st)
           IN  /\ t.groundPlain = update(st.groundPlain, st.mouse, st.cfg)
               /\ t.groundPlain.cycle = RAdd(st.groundPlain.cycle, st.cfg.speed)
               /\ t.renderer.rendered = st.renderer.rendered + 1
               /\ t.renderer.shown = t.groundPlain.cycle
               /\ t.frames = st.frames \cup {st.nextHandle}
               /\ t.animationFrameId = st.nextHandle
               /\ t.nextHandle = st.nextHandle + 1

\* when a requested callback h leaves frames, either it has run on the engine
\* that requested it, drawn one more frame and requested the next one, or a
\* teardown has dropped that engine
C20_TickOrTeardown ==
    \A h \in st.frames :
        h \notin st'.frames =>
            \/ /\ Active(st') /\ Len(st'.retired) = Len(st.retired)
               /\ st'.groundPlain.id = st.groundPlain.id
               /\ st'.groundPlain.cycle = RAdd(st.groundPlain.cycle, st.cfg.speed)
               /\ st'.renderer.rendered = st.renderer.rendered + 1
               /\ st'.frames = {h + 1}
            \/ Len(st'.retired) = Len(st.retired) + 1

C20_TickLoop ==
    /\ []C20_TickStep
    /\ [][C20_TickOrTeardown]_vars
    /\ \A h \in 1..(MaxFrames - 1) : (h \in st.frames) ~> (h \notin st.frames)

\* the loop has run three scheduled ticks on the mounted scene
C20_Witness ==
    /\ Active(st) /\ st.engines = 1
    /\ st.renderer.rendered = MaxFrames
    /\ st.frames = {MaxFrames}
    /\ st.renderer.shown = RMul(Q(MaxFrames + 1), st.cfg.speed)

(***************************************************************************)
(* C21: with mouseInteraction = false, update(pointer) leaves the          *)
(* container's position and rotation and the target `move` unchanged, and  *)
(* they are (0, waveOffsetY, cameraDistance) and the waveRotation-derived  *)
(* Euler; with mouseInteraction = true the target becomes                  *)
(* (-pointer.x * 0.04, waveOffsetY + pointer.y * 0.04, cameraDistance),    *)
(* the target rotation stays the initial one, and the container moves      *)
(* towards them by 1/ease of the remaining distance.                       *)
(***************************************************************************)
C21_Pointers == { st.mouse, [x |-> Q(100), y |-> Q(-50)], [x |-> Q(0), y |-> Q(0)] }

C21_UpdateFrame ==
    Active(st) =>
        LET gp == st.groundPlain
            home == <<Q(0), st.cfg.waveOffsetY, st.cfg.cameraDistance>>
            euler == <<st.cfg.waveRotation, Q(0), Q(0)>>
        IN  /\ gp.look = euler /\ gp.group.rotation = euler
            /\ ~st.cfg.mouseInteraction =>
                 gp.move = home /\ gp.group.position = home
            /\ \A m \in C21_Pointers :
                 LET t == update(gp, m, st.cfg)
                     target == << RNeg(RMul(m.x, Frac(4, 100))),
                                  RAdd(st.cfg.waveOffsetY, RMul(m.y, Frac(4, 100))),
                                  st.cfg.cameraDistance >>
                 IN  /\ t.look = euler /\ t.group.rotation = euler
                     /\ ~st.cfg.mouseInteraction =>
                          /\ t.move = gp.move
                          /\ t.group.position = gp.group.position
                          /\ t.group.rotation = gp.group.rotation
                     /\ st.cfg.mouseInteraction =>
                          /\ t.move = target
                          /\ \A i \in 1..3 :
                               RSub(t.group.position[i], gp.group.position[i]) =
                                 RDiv(RSub(target[i], gp.group.position[i]), gp.ease)

\* ticks after a pointer event have moved the container off its initial position,
\* towards the target the pointer gives
C21_Witness ==
    /\ Active(st) /\ st.cfg.mouseInteraction
    /\ \E e \in MouseEvents :
         st.mouse = [x |-> mouseCenterX(st.win, e), y |-> mouseCenterY(st.win, e)]
    /\ st.groundPlain.move[1] = RNeg(RMul(st.mouse.x, Frac(4, 100)))
    /\ st.groundPlain.group.position # <<Q(0), st.cfg.waveOffsetY, st.cfg.cameraDistance>>
    /\ st.groundPlain.group.position # st.groundPlain.move

(***************************************************************************)
(* C22: on an Active scene, a reconfiguration whose change set holds only  *)
(* cheap fields (waveColor, wireframe, opacity, autoDetectBackground,      *)
(* backgroundColor) updates the material and the point light of the        *)
(* running engine (colour = resolved colour, wireframe, opacity,           *)
(* transparent = opacity < 1, depthWrite = not (opacity < 1), blending     *)
(* normal iff opacity < 1) and leaves the engine instance, the snapshot,   *)
(* the buffer, cycle, distortionTime, the pointer state, the listeners and *)
(* the pending animation callback as they were.  Checked for every change  *)
(* of one or two cheap fields.                                             *)
(***************************************************************************)
C22_CheapKeys == {"waveColor", "wireframe", "opacity", "autoDetectBackground", "backgroundColor"}

C22_OneCheap(c) == { v \in Variants(c) : Changed(c, v) \subseteq C22_CheapKeys }

C22_Reconfigurations ==
    (C22_OneCheap(st.cfg) \cup UNION { C22_OneCheap(v) : v \in C22_OneCheap(st.cfg) })
        \ {st.cfg}

C22_CheapInPlace ==
    (phase = "mounted" /\ Active(st)) =>
        \A c \in C22_Reconfigurations, glOk \in BOOLEAN :
            LET t == ngOnChanges([st EXCEPT !.cfg = c], Changed(st.cfg, c), glOk)
                colour == determineWaveColor(c, st.dom)
                clear == RLess(c.opacity, Q(1))
                mat == t.groundPlain.material
            IN  /\ mat.color = colour /\ t.pointLight.color = colour
                /\ mat.wireframe = c.wireframe /\ mat.opacity = c.opacity
                /\ mat.transparent = clear /\ mat.depthWrite = ~clear
                /\ mat.blending = "NormalBlending" <=> clear
                /\ mat.needsUpdate
                /\ t.groundPlain = [st.groundPlain EXCEPT !.material = mat]
                /\ t = [st EXCEPT !.cfg = c,
                                  !.groundPlain.material = mat,
                                  !.pointLight.color = colour]

\* the first engine is still the running one, with its listeners and its pending
\* callback, and a reconfiguration has set its material to half opacity
C22_Witness ==
    /\ phase = "mounted" /\ Active(st) /\ st.engines = 1 /\ st.retired = <<>>
    /\ st.cfg.opacity = Frac(1, 2)
    /\ st.groundPlain.material.needsUpdate
    /\ st.groundPlain.material.transparent /\ ~st.groundPlain.material.depthWrite
    /\ st.renderer.rendered >= 2 /\ st.frames = {st.animationFrameId}
    /\ "mousemove" \in st.listeners

(***************************************************************************)
(* C23: a resize event on an Active scene sets the camera aspect ratio and *)
(* the rendering-surface size to the new viewport dimensions and changes   *)
(* nothing else (no rebuild: the engine instance, vertex count, cycle,     *)
(* distortionTime, pointer state and listeners stay as they were); when    *)
(* the camera or the renderer is absent the resize handler changes         *)
(* nothing.  So an Active scene always has the aspect ratio and the        *)
(* surface size of the current viewport.                                   *)
(***************************************************************************)
\* the dimensions of the two viewports, as width, height and width / height
C23_Dimensions(v) ==
    IF v.innerWidth = 800 THEN <<800, 600, Frac(4, 3)>> ELSE <<1200, 400, Q(3)>>

C23_ResizeFrame ==
    /\ \A v \in Viewports :
         LET s == [st EXCEPT !.win = v]
             t == handleResize(s)
             dim == C23_Dimensions(v)
         IN  /\ (st.camera = NULL \/ st.renderer = NULL) => t = s
             /\ Active(st) =>
                  /\ t.camera.aspect = dim[3]
                  /\ t.renderer.size = <<dim[1], dim[2]>>
                  /\ t = [s EXCEPT !.camera.aspect = dim[3],
                                   !.renderer.size = <<dim[1], dim[2]>>]
                  /\ t.groundPlain = st.groundPlain
                  /\ t.groundPlain.geometry.count = st.groundPlain.geometry.count
                  /\ t.engines = st.engines /\ t.retired = st.retired
                  /\ t.mouse = st.mouse /\ t.listeners = st.listeners
                  /\ t.frames = st.frames
    /\ Active(st) =>
         /\ "resize" \in st.listeners
         /\ st.camera.aspect = C23_Dimensions(st.win)[3]
         /\ st.renderer.size = <<C23_Dimensions(st.win)[1], C23_Dimensions(st.win)[2]>>

\* the scene set up in the 800 x 600 viewport (the pointer state still holds that
\* viewport's centre) has been resized to 1200 x 400 and is still the first engine
C23_Witness ==
    /\ Active(st) /\ st.engines = 1 /\ st.retired = <<>>
    /\ st.mouse = [x |-> Q(400), y |-> Q(300)]
    /\ st.win.innerWidth = 0
    /\ st.camera.aspect = Q(3) /\ st.renderer.size = <<1200, 400>>
    /\ st.renderer.rendered >= 2

(***************************************************************************)
(* C24: the engine's tuning parameters (factor, scale, speed, ease,        *)
(* mouseDistortionStrength/Smoothness/Decay, mouseShrinkScaleStrength/     *)
(* Radius) are those of the configuration at the moment the engine is      *)
(* created, and no tick, pointer event, resize or reconfiguration without  *)
(* a heavy field changes them: after a change of ease or of a              *)
(* mouseDistortion* / mouseShrinkScale* input alone the running engine     *)
(* keeps the values it had, until a heavy field causes a rebuild.          *)
(***************************************************************************)
C24_TuningKeys ==
    { "ease", "mouseDistortionStrength", "mouseDistortionSmoothness", "mouseDistortionDecay",
      "mouseShrinkScaleStrength", "mouseShrinkScaleRadius" }

\* the tuning parameters an engine holds, and those a configuration asks for
C24_Held(gp) ==
    << gp.factor, gp.scale, gp.speed, gp.ease, gp.mouseDistortionStrength,
       gp.mouseDistortionSmoothness, gp.mouseDistortionDecay,
       gp.mouseShrinkScaleStrength, gp.mouseShrinkScaleRadius >>

C24_Asked(c) ==
    << c.smoothness, c.amplitude, c.speed, c.ease, c.mouseDistortionStrength,
       c.mouseDistortionSmoothness, c.mouseDistortionDecay,
       c.mouseShrinkScaleStrength, c.mouseShrinkScaleRadius >>

\* the handlers applied to the current state
C24_HandlersKeepTuning ==
    Active(st) =>
        LET held == C24_Held(st.groundPlain)
        IN  /\ \A i \in 1..3 : held[i] = C24_Asked(st.cfg)[i]
            /\ C24_Held(animate(st).groundPlain) = held
            /\ \A e \in MouseEvents : C24_Held(handleMouseMove(st, e).groundPlain) = held
            /\ \A v \in Viewports :
                 C24_Held(handleResize([st EXCEPT !.win = v]).groundPlain) = held
            /\ \A c \in Variants(st.cfg) :
                 Changed(st.cfg, c) \cap
                   { "quality", "smoothness", "amplitude", "speed", "waveOffsetY",
                     "waveRotation", "cameraDistance", "fov", "mouseInteraction" } = {} =>
                     LET t == ngOnChanges([st EXCEPT !.cfg = c], Changed(st.cfg, c), TRUE)
                     IN  /\ t.groundPlain.id = st.groundPlain.id
                         /\ C24_Held(t.groundPlain) = held
                         /\ (Changed(st.cfg, c) \subseteq C24_TuningKeys
                               /\ held = C24_Asked(st.cfg)) =>
                              C24_Held(t.groundPlain) # C24_Asked(c)

\* every step: a new engine holds what the configuration asks for when it is
\* created; an engine that stays holds what it held
C24_StepKeepsTuning ==
    Active(st') =>
        IF st'.engines # st.engines
        THEN C24_Held(st'.groundPlain) = C24_Asked(st'.cfg)
        ELSE Active(st) /\ st'.groundPlain.id = st.groundPlain.id
               /\ C24_Held(st'.groundPlain) = C24_Held(st.groundPlain)

C24_TuningIsSnapshot ==
    /\ []C24_HandlersKeepTuning
    /\ [][C24_StepKeepsTuning]_vars

\* the engine created with ease 12 is still running, has ticked, and the ease
\* input has since been changed to 1
C24_Witness ==
    /\ Active(st) /\ st.engines = 1
    /\ st.cfg.ease = Q(1) /\ st.groundPlain.ease = Q(12)
    /\ st.groundPlain.material.needsUpdate
    /\ st.renderer.rendered >= 2

(***************************************************************************)
(* C25: once a setupScene has failed to create the rendering context, the  *)
(* degraded state is absorbing under reconfiguration: every later          *)
(* ngOnChanges, cheap or heavy, returns without doing anything, so no      *)
(* rebuild is attempted, webGLFailed stays true, no listener and no        *)
(* animation callback is registered, and scene and camera stay non-null    *)
(* while renderer and mesh engine stay null, until ngOnDestroy runs        *)
(* cleanupScene.                                                           *)
(***************************************************************************)
C25_Degraded(s) ==
    /\ s.webGLFailed
    /\ s.scene # NULL /\ s.camera # NULL
    /\ s.renderer = NULL /\ s.groundPlain = NULL

\* ngOnChanges applied to the degraded state, for every change of one input
C25_ChangesDoNothing ==
    (phase = "mounted" /\ st.webGLFailed) =>
        /\ C25_Degraded(st)
        /\ st.frames = {} /\ st.animationFrameId = NoHandle
        /\ \A c \in Variants(st.cfg), glOk \in BOOLEAN :
             ngOnChanges([st EXCEPT !.cfg = c], Changed(st.cfg, c), glOk)
               = [st EXCEPT !.cfg = c]

\* every step: a failing setupScene leads to the degraded state, and every step
\* from it but the destruction stays in it, registers nothing and creates nothing
C25_StaysDegraded ==
    /\ (st'.webGLFailed /\ ~st.webGLFailed) => C25_Degraded(st')
    /\ (C25_Degraded(st) /\ phase' # "destroyed") =>
         /\ C25_Degraded(st')
         /\ st'.listeners \subseteq st.listeners
         /\ st'.frames = {} /\ st'.nextHandle = st.nextHandle
         /\ st'.engines = st.engines /\ st'.retired = st.retired
         /\ st'.container = st.container
    /\ (C25_Degraded(st) /\ phase' = "destroyed") =>
         st'.scene = NULL /\ st'.camera = NULL

C25_DegradedIsAbsorbing ==
    /\ []C25_ChangesDoNothing
    /\ [][C25_StaysDegraded]_vars

\* a rebuild for mouseInteraction = false has failed, and the inputs have been
\* changed since (mouseInteraction is on again, with the listener the failed
\* rebuild left behind): the scene is still degraded
C25_Witness ==
    /\ phase = "mounted" /\ C25_Degraded(st)
    /\ st.retired # <<>>
    /\ "mousemove" \in st.listeners /\ st.cfg.mouseInteraction

====
